---------------------------- MODULE Spec2Model ----------------------------
(***************************************************************************)
(* Client scripts of the Shopify integration:                              *)
(*   - the Item list view's "Batch Update Price" dialog with its realtime  *)
(*     progress listener on the 'shopify_price_batch' channel,             *)
(*   - the Sales Order form's shopify_coupon_code field handler,           *)
(*   - the Shopify Coupon Code form's "Update Coupon" button.              *)
(*                                                                         *)
(* JavaScript values are tagged records, so that x || d, !x and            *)
(* a ? b : c are modelled by JavaScript truthiness and a missing object    *)
(* field reads as undefined.  Strings are sequences of one-character       *)
(* strings, so that toUpperCase, escape_html and join compute on the text. *)
(***************************************************************************)
EXTENDS Integers, Sequences, FiniteSets, TLC

\* ------------------------------------------------------------------ bounds
MaxPresses == 2
MaxEvents == 3
MaxPctTotal == 8
MaxChanges == 3
MaxClicks == 3

\* ------------------------------------------------------- JavaScript values
Undefined == [t |-> "undefined"]
Null == [t |-> "null"]
Num(n) == [t |-> "number", v |-> n]
Str(s) == [t |-> "string", v |-> s]

\* ToBoolean: undefined, null, 0 and '' are falsy; every object is truthy.
Truthy(x) ==
    CASE x.t = "undefined" -> FALSE
      [] x.t = "null" -> FALSE
      [] x.t = "number" -> x.v # 0
      [] x.t = "string" -> x.v # <<>>
      [] OTHER -> TRUE

\* a || b
Or(a, b) == IF Truthy(a) THEN a ELSE b

\* String.prototype.toUpperCase, character by character
LowerCase == <<"a","b","c","d","e","f","g","h","i","j","k","l","m",
               "n","o","p","q","r","s","t","u","v","w","x","y","z">>
UpperCase == <<"A","B","C","D","E","F","G","H","I","J","K","L","M",
               "N","O","P","Q","R","S","T","U","V","W","X","Y","Z">>
UpperChar(c) ==
    IF \E i \in DOMAIN LowerCase : LowerCase[i] = c
    THEN UpperCase[CHOOSE i \in DOMAIN LowerCase : LowerCase[i] = c]
    ELSE c
toUpperCase(s) == [i \in DOMAIN s |-> UpperChar(s[i])]

\* frappe.utils.escape_html: each of & < > " ' = / becomes its entity
EscapeChar(c) ==
    CASE c = "&" -> <<"&","a","m","p",";">>
      [] c = "<" -> <<"&","l","t",";">>
      [] c = ">" -> <<"&","g","t",";">>
      [] c = "\"" -> <<"&","q","u","o","t",";">>
      [] c = "'" -> <<"&","#","3","9",";">>
      [] c = "=" -> <<"&","#","x","3","D",";">>
      [] c = "/" -> <<"&","#","x","2","F",";">>
      [] OTHER -> <<c>>
RECURSIVE escape_html(_)
escape_html(s) ==
    IF s = <<>> THEN <<>> ELSE EscapeChar(Head(s)) \o escape_html(Tail(s))

\* Array.prototype.join(sep)
RECURSIVE join(_, _)
join(list, sep) ==
    IF list = <<>> THEN <<>>
    ELSE IF Len(list) = 1 THEN list[1]
    ELSE list[1] \o sep \o join(Tail(list), sep)

MathRound_floor(n, d) == n \div d

\* Math.round(n / d) for integers n >= 0, d > 0: the nearest integer, a half
\* going up.  (progress / total) * 100 is n = progress * 100 over d = total.
MathRound(n, d) == (2 * n + d) \div (2 * d)

\* ------------------------------------------------------------ the state
VARIABLES
    dialog,       \* the Batch Update Price dialog d (Undefined before the click)
    listeners,    \* handlers registered on the 'shopify_price_batch' channel
    batch_calls,  \* batch_update_prices_from_csv calls in flight
    batch_msgs,   \* msgprint('Batch update started. ...') notices shown
    presses,      \* history: every Start press, with the csv value it read
    issued,       \* history: every remote call the dialog issued
    published,    \* history: number of events published on the channel
    doc,          \* the Sales Order document: coupon code and discount
    lookups,      \* get_shopify_coupon_code_percent_value calls in flight
    order_log,    \* history: the Sales Order's field changes and replies
    coupon_calls, \* update_shopify_coupon_code calls in flight
    coupon_msgs,  \* msgprint dialogs of the Shopify Coupon Code form
    coupon_replies \* history: the responses the Update Coupon callback got

batch_vars == <<dialog, listeners, batch_calls, batch_msgs, presses, issued, published>>
order_vars == <<doc, lookups, order_log>>
coupon_vars == <<coupon_calls, coupon_msgs, coupon_replies>>
vars == <<dialog, listeners, batch_calls, batch_msgs, presses, issued,
          published, doc, lookups, order_log, coupon_calls, coupon_msgs,
          coupon_replies>>

\* --------------------------------------------- Batch Update Price dialog
\* One click of the list view button builds one dialog d with its own
\* messages array and its own handler closure; the model follows one such
\* dialog from the click on (dialogs share nothing but the channel).
S_done == <<"d","o","n","e">>
S_br == <<"<","b","r",">">>
BatchMethod == "ecommerce_integrations.shopify.product.batch_update_prices_from_csv"
Handler == "handler"

\* A progress payload: an object whose absent fields read as undefined.
Payload(total, progress, current, status, result, message) ==
    [t |-> "object", total |-> total, progress |-> progress, current |-> current,
     status |-> status, result |-> result, message |-> message]

\* const d = new frappe.ui.Dialog({...}); d.show(); const messages = [];
\* fx, renders, last, missed, returned, gotDone and gotFull are history
\* fields: the effects of the handler's last run in program order, the
\* number of re-renders, the last payload handled, the number of payloads
\* published while the handler was not registered, the Start callbacks
\* returned, and whether a payload with status 'done' / with
\* progress >= total was handled.
NewDialog ==
    [t |-> "object", shown |-> TRUE, messages |-> <<>>, progress_html |-> Undefined,
     fx |-> <<>>, renders |-> 0, last |-> Undefined, missed |-> 0, returned |-> 0,
     gotDone |-> FALSE, gotFull |-> FALSE]

\* const pct = total ? Math.round((progress / total) * 100) : 0;
Pct(total, progress) ==
    IF Truthy(total) THEN Num(MathRound(progress.v * 100, total.v)) ELSE Num(0)

Entry_asIs(result, message) == result.v \o <<":", " ">> \o message.v

\* `${result.toUpperCase()}: ${frappe.utils.escape_html(message)}`
Entry(result, message) ==
    toUpperCase(result.v) \o <<":", " ">> \o escape_html(message.v)

\* if (message) { messages.push(...) }
Pushed(messages, result, message) ==
    IF Truthy(message) THEN Append(messages, Entry(result, message)) ELSE messages

\* The holes of the HTML template, in the order they are interpolated.
Html(progress, total, current, status, pct, messages) ==
    [progress |-> progress, total |-> total, current |-> escape_html(current.v),
     status |-> status.v, pct |-> pct, body |-> join(messages, S_br)]

Completed_noDone(status, progress, total) == progress.v >= total.v

Completed_anyStatus(status, progress, total) ==
    status # Str(<<>>) \/ progress.v >= total.v

\* if (status === 'done' || progress >= total)
Completed(status, progress, total) ==
    status = Str(S_done) \/ progress.v >= total.v

\* Whether handler(data) ends by frappe.realtime.off(channel, handler).
HandlerOff(data) ==
    /\ Truthy(data)
    /\ Completed(Or(data.status, Str(<<>>)), Or(data.progress, Num(0)),
                 Or(data.total, Num(0)))

\* The dialog after handler(data) ran on it.
handler(dlg, data) ==
    IF ~Truthy(data) THEN [dlg EXCEPT !.fx = <<>>]
    ELSE
      LET total == Or(data.total, Num(0))
          progress == Or(data.progress, Num(0))
          current == Or(data.current, Str(<<>>))
          status == Or(data.status, Str(<<>>))
          result == Or(data.result, Str(<<>>))
          message == Or(data.message, Str(<<>>))
          msgs == Pushed(dlg.messages, result, message)
          pct == Pct(total, progress)
      IN [dlg EXCEPT
            !.messages = msgs,
            !.progress_html = Html(progress, total, current, status, pct, msgs),
            !.fx = (IF Truthy(message) THEN <<"push">> ELSE <<>>) \o <<"html">>
                   \o (IF HandlerOff(data) THEN <<"off">> ELSE <<>>),
            !.renders = @ + 1,
            !.last = data,
            !.gotDone = @ \/ data.status = Str(S_done),
            !.gotFull = @ \/ (Or(data.progress, Num(0))).v >= (Or(data.total, Num(0))).v]

\* Inputs: what the user types and what the server publishes.
Opt(S) == {Undefined} \cup S
Counts(n) == Opt({Num(k) : k \in 0..n})
CsvValues == {Undefined, Str(<<>>), Str(<<"a">>), Str(<<"a", ",", "1">>)}
Statuses == Opt({Str(S_done), Str(<<"x">>)})

\* Listener life cycle: total missing, zero and positive; progress below,
\* at and above total; status missing, 'done' and other; with and without
\* a message; and the null payload.
Payloads ==
    {Null} \cup
    {Payload(tt, pp, Undefined, st, Undefined, mm) :
        tt \in Opt({Num(0), Num(2)}), pp \in Opt({Num(1), Num(2)}),
        st \in Statuses, mm \in Opt({Str(<<"<">>)})}

\* Progress bar: every pair of counts up to MaxPctTotal, present or missing.
PctPayloads ==
    {Payload(tt, pp, Undefined, Undefined, Undefined, Undefined) :
        tt \in Counts(MaxPctTotal), pp \in Counts(MaxPctTotal)}

\* Message list: result and message missing, empty and set, one of them with
\* characters that escape_html rewrites; one event completes.
MsgPayloads ==
    {Null} \cup
    {Payload(Num(2), pp, Undefined, Undefined, rr, mm) :
        pp \in {Num(1), Num(2)},
        rr \in Opt({Str(<<>>), Str(<<"o", "k">>), Str(<<"E", "r", "r">>)}),
        mm \in Opt({Str(<<>>), Str(<<"m">>), Str(<<"<", "&">>)})}

\* listview.page.add_inner_button(__('Batch Update Price'), function() {...})
BatchUpdatePrice ==
    /\ dialog = Undefined
    /\ dialog' = NewDialog
    /\ listeners' = listeners \cup {Handler}
    /\ UNCHANGED <<batch_calls, batch_msgs, presses, issued, published>>
    /\ UNCHANGED <<order_vars, coupon_vars>>

primary_action_noGuard(csv) ==
    /\ Truthy(dialog) /\ dialog.shown
    /\ Len(presses) < MaxPresses
    /\ presses' = Append(presses, csv)
    /\ LET call == [method |-> BatchMethod, args |-> [csv |-> csv]]
       IN /\ batch_calls' = Append(batch_calls, call)
          /\ issued' = Append(issued, call)
    /\ UNCHANGED <<dialog, listeners, batch_msgs, published>>
    /\ UNCHANGED <<doc, lookups, order_log, coupon_calls, coupon_msgs, coupon_replies>>

\* primary_action: the Start button, the csv field holding csv
primary_action(csv) ==
    /\ Truthy(dialog) /\ dialog.shown
    /\ Len(presses) < MaxPresses
    /\ presses' = Append(presses, csv)
    /\ IF ~Truthy(csv)
       THEN UNCHANGED <<batch_calls, issued>>
       ELSE LET call == [method |-> BatchMethod, args |-> [csv |-> csv]]
            IN /\ batch_calls' = Append(batch_calls, call)
               /\ issued' = Append(issued, call)
    /\ UNCHANGED <<dialog, listeners, batch_msgs, published>>
    /\ UNCHANGED <<order_vars, coupon_vars>>

Remove(seq, k) == SubSeq(seq, 1, k - 1) \o SubSeq(seq, k + 1, Len(seq))

\* callback: function(r) { frappe.msgprint(__('Batch update started. ...')) }
BatchCallback(k) ==
    /\ batch_calls' = Remove(batch_calls, k)
    /\ batch_msgs' = batch_msgs + 1
    /\ dialog' = [dialog EXCEPT !.returned = @ + 1]
    /\ UNCHANGED <<listeners, presses, issued, published>>
    /\ UNCHANGED <<order_vars, coupon_vars>>

\* The server publishes data on 'shopify_price_batch': the handler runs on it
\* if it is registered.
Publish(data) ==
    /\ published < MaxEvents
    /\ published' = published + 1
    /\ IF Handler \in listeners
       THEN /\ dialog' = handler(dialog, data)
            /\ listeners' = IF HandlerOff(data) THEN listeners \ {Handler} ELSE listeners
       ELSE /\ dialog' = IF Truthy(dialog) /\ Truthy(data)
                         THEN [dialog EXCEPT !.missed = @ + 1] ELSE dialog
            /\ UNCHANGED listeners
    /\ UNCHANGED <<batch_calls, batch_msgs, presses, issued>>
    /\ UNCHANGED <<order_vars, coupon_vars>>

onhide_noOff ==
    /\ Truthy(dialog) /\ dialog.shown
    /\ dialog' = [dialog EXCEPT !.shown = FALSE]
    /\ UNCHANGED <<listeners, batch_calls, batch_msgs, presses, issued, published>>
    /\ UNCHANGED <<doc, lookups, order_log, coupon_calls, coupon_msgs, coupon_replies>>

\* d.onhide = function() { frappe.realtime.off('shopify_price_batch', handler); }
onhide ==
    /\ Truthy(dialog) /\ dialog.shown
    /\ dialog' = [dialog EXCEPT !.shown = FALSE]
    /\ listeners' = listeners \ {Handler}
    /\ UNCHANGED <<batch_calls, batch_msgs, presses, issued, published>>
    /\ UNCHANGED <<order_vars, coupon_vars>>

\* --------------------------------------------------- Sales Order form
LookupMethod == "ecommerce_integrations.shopify.coupon.get_shopify_coupon_code_percent_value"

\* A server response r: r.message is absent or an object.
Response(message) == [t |-> "object", message |-> message]
PercentMessage(percent_value) == [t |-> "object", percent_value |-> percent_value]

CodeValues == {Undefined, Str(<<>>), Str(<<"A">>), Str(<<"B">>)}
LookupResponses ==
    {Response(Undefined)} \cup
    {Response(PercentMessage(pv)) : pv \in Opt({Num(0), Num(10), Num(20)})}

\* frm.set_value('additional_discount_percentage', value)
set_discount(d, value) == [d EXCEPT !.additional_discount_percentage = value]

lookup_callback_noDefault(d, r) ==
    IF Truthy(r.message) THEN set_discount(d, r.message.percent_value) ELSE d

\* callback: if (r.message) { frm.set_value(..., r.message.percent_value || 0) }
lookup_callback(d, r) ==
    IF Truthy(r.message)
    THEN set_discount(d, Or(r.message.percent_value, Num(0)))
    ELSE d

\* The user sets the field to v, and the form runs shopify_coupon_code(frm).
\* order_log counts the changes and keeps the last value set.
shopify_coupon_code(v) ==
    /\ order_log.changes < MaxChanges
    /\ order_log' = [order_log EXCEPT !.changes = @ + 1]
    /\ LET frm == [doc EXCEPT !.shopify_coupon_code = v]
       IN IF Truthy(frm.shopify_coupon_code)
          THEN /\ lookups' = Append(lookups,
                     [method |-> LookupMethod,
                      args |-> [coupon_code |-> frm.shopify_coupon_code]])
               /\ doc' = frm
          ELSE /\ doc' = set_discount(frm, Num(0))
               /\ UNCHANGED lookups
    /\ UNCHANGED <<batch_vars, coupon_vars>>

\* The response r to lookup k arrives (in any order) and its callback runs.
\* order_log keeps the last reply and, per code, the last response for it.
LookupCallback(k, r) ==
    /\ lookups' = Remove(lookups, k)
    /\ doc' = lookup_callback(doc, r)
    /\ order_log' = [order_log EXCEPT
          !.replies = @ + 1,
          !.last = [call |-> lookups[k], r |-> r],
          !.answers = [c \in DOMAIN @ \cup {lookups[k].args.coupon_code} |->
                         IF c = lookups[k].args.coupon_code THEN r ELSE @[c]]]
    /\ UNCHANGED <<batch_vars, coupon_vars>>

\* ------------------------------------------- Shopify Coupon Code form
UpdateMethod == "ecommerce_integrations.shopify.coupon.update_shopify_coupon_code"
S_success == <<"s","u","c","c","e","s","s">>
\* Literal notice texts are kept whole.
T_updated == Str(<<"Coupon updated.">>)
T_failed == Str(<<"Failed to update coupons.">>)
T_error == Str(<<"Error">>)

UpdateMessage(status, error) == [t |-> "object", status |-> status, error |-> error]
CouponResponses ==
    {Response(Undefined)} \cup
    {Response(UpdateMessage(st, er)) :
        st \in Opt({Str(S_success), Str(<<"S">> \o Tail(S_success)), Str(<<"f">>)}),
        er \in Opt({Str(<<>>), Str(<<"e">>)})}

IsSuccess_anyStatus(r) == Truthy(r.message) /\ Truthy(r.message.status)

\* r.message && r.message.status === "success"
IsSuccess(r) == Truthy(r.message) /\ r.message.status = Str(S_success)

\* r.message && r.message.error ? r.message.error : __("Failed to update coupons.")
ErrorText(r) ==
    IF Truthy(r.message) /\ Truthy(r.message.error) THEN r.message.error ELSE T_failed

\* The frappe.msgprint call the callback makes on response r.
update_callback(r) ==
    IF IsSuccess(r)
    THEN [message |-> T_updated]
    ELSE [title |-> T_error, message |-> ErrorText(r), indicator |-> "red"]

\* frm.add_custom_button(__("Update Coupon"), function () { frappe.call({...}) })
UpdateCoupon ==
    /\ Len(coupon_calls) + Len(coupon_msgs) < MaxClicks
    /\ coupon_calls' = Append(coupon_calls,
          [method |-> UpdateMethod, args |-> [coupon_code_name |-> "frm.doc.name"]])
    /\ UNCHANGED <<coupon_msgs, coupon_replies>>
    /\ UNCHANGED <<batch_vars, order_vars>>

\* The response r to call k arrives and its callback runs.
UpdateCallback(k, r) ==
    /\ coupon_calls' = Remove(coupon_calls, k)
    /\ coupon_msgs' = Append(coupon_msgs, update_callback(r))
    /\ coupon_replies' = Append(coupon_replies, r)
    /\ UNCHANGED <<batch_vars, order_vars>>

\* ------------------------------------------------------- specifications
Init ==
    /\ dialog = Undefined
    /\ listeners = {}
    /\ batch_calls = <<>>
    /\ batch_msgs = 0
    /\ presses = <<>>
    /\ issued = <<>>
    /\ published = 0
    /\ doc = [shopify_coupon_code |-> Undefined, additional_discount_percentage |-> Num(0)]
    /\ lookups = <<>>
    /\ order_log = [changes |-> 0, replies |-> 0, last |-> Undefined, answers |-> <<>>]
    /\ coupon_calls = <<>>
    /\ coupon_msgs = <<>>
    /\ coupon_replies = <<>>

NextOver(csvs, payloads) ==
    \/ BatchUpdatePrice
    \/ \E csv \in csvs : primary_action(csv)
    \/ \E k \in DOMAIN batch_calls : BatchCallback(k)
    \/ \E data \in payloads : Publish(data)
    \/ onhide

\* The listener's life cycle: Start presses, callbacks, events, close.
Next == NextOver({Str(<<>>), Str(<<"a">>)}, Payloads)
Spec == Init /\ [][Next]_vars

\* The Start button with every kind of csv value.
NextStart == NextOver(CsvValues, {Null, Payload(Num(2), Num(1), Undefined, Undefined, Undefined, Undefined)})
SpecStart == Init /\ [][NextStart]_vars

\* The progress bar over all counts up to MaxPctTotal.
NextPct == NextOver({Str(<<"a">>)}, PctPayloads)
SpecPct == Init /\ [][NextPct]_vars

\* The message list over results and messages of every kind.
NextMsg == NextOver({Str(<<"a">>)}, MsgPayloads)
SpecMsg == Init /\ [][NextMsg]_vars

\* The Sales Order form: field changes and lookup responses in any order.
NextOrder ==
    \/ \E v \in CodeValues : shopify_coupon_code(v)
    \/ \E k \in DOMAIN lookups, r \in LookupResponses : LookupCallback(k, r)
SpecOrder == Init /\ [][NextOrder]_vars

\* The Shopify Coupon Code form: Update Coupon clicks and their responses.
NextCoupon ==
    \/ UpdateCoupon
    \/ \E k \in DOMAIN coupon_calls, r \in CouponResponses : UpdateCallback(k, r)
SpecCoupon == Init /\ [][NextCoupon]_vars

\* --------------------------------------------------------------- claims
\* What the claims call a non-empty value, and the text of a value.
HasText(x) == x.t = "string" /\ Len(x.v) > 0
TextOf(x) == IF x.t = "string" THEN x.v ELSE <<>>
CountOf(x) == IF x.t = "number" THEN x.v ELSE 0
NoField(x) == x.t = "undefined"

\* The calls the claim expects for a sequence of Start presses.
RECURSIVE CallsFor(_)
CallsFor(ps) ==
    IF ps = <<>> THEN <<>>
    ELSE (IF HasText(Head(ps))
          THEN <<[method |-> BatchMethod, args |-> [csv |-> Head(ps)]]>>
          ELSE <<>>) \o CallsFor(Tail(ps))

\* C1: the remote calls issued are exactly, in order, one
\* batch_update_prices_from_csv call per Start press made with a non-empty
\* csv value, carrying that value; a press with an empty or absent value
\* issues none.  Every call issued is in flight or has returned.
C1_StartIssuesOneCall ==
    /\ issued = CallsFor(presses)
    /\ Len(batch_calls) + batch_msgs = Len(issued)

C1_Witness ==
    /\ Len(presses) = 2
    /\ presses[1] = Undefined
    /\ presses[2] = Str(<<"a", ",", "1">>)
    /\ Len(issued) = 1

\* k is n / d rounded to the nearest integer, a half going up.
IsRounded(k, n, d) == (2 * k - 1) * d <= 2 * n /\ 2 * n < (2 * k + 1) * d

Frozen ==
    /\ dialog'.messages = dialog.messages
    /\ dialog'.progress_html = dialog.progress_html
    /\ dialog'.renders = dialog.renders

\* C3: once the handler handled a payload with status 'done' it is no longer
\* registered; that payload was rendered before the handler was removed; and
\* from then on no step changes the message list or the rendered progress.
C3_DoneDeregisters ==
    /\ [](Truthy(dialog) /\ dialog.gotDone => Handler \notin listeners)
    /\ [](Truthy(dialog) /\ dialog.last # Undefined /\ dialog.last.status = Str(S_done) =>
            /\ dialog.progress_html.status = S_done
            /\ dialog.fx \in {<<"html", "off">>, <<"push", "html", "off">>})
    /\ [][Truthy(dialog) /\ dialog.gotDone => Frozen]_vars

C3_Witness ==
    /\ Truthy(dialog)
    /\ dialog.shown
    /\ dialog.gotDone
    /\ ~dialog.gotFull
    /\ dialog.renders = 2
    /\ dialog.missed > 0

\* C4, as stated: while the dialog is open and no payload with status 'done'
\* was handled, the handler is registered.
C4_OnlyDoneOrClose ==
    Truthy(dialog) /\ dialog.shown /\ ~dialog.gotDone => Handler \in listeners

\* C4, amended: while the dialog is open and no payload with status 'done' or
\* with progress >= total (missing fields counting as 0) was handled, the
\* handler is registered.
C4_OnlyCompletionOrClose ==
    Truthy(dialog) /\ dialog.shown /\ ~dialog.gotDone /\ ~dialog.gotFull =>
        Handler \in listeners

C4_Witness ==
    /\ Truthy(dialog)
    /\ dialog.shown
    /\ dialog.renders = 3
    /\ ~dialog.gotDone
    /\ ~dialog.gotFull
    /\ Handler \in listeners

\* C7: the message list is append-only and in arrival order.  A step in which
\* the handler handled a payload appends exactly one entry, the upper-cased
\* result, ': ' and the escaped message, when the payload's message is
\* non-empty, and leaves the list as it is otherwise; a null payload changes
\* neither the list, nor the rendering, nor the registration; no other step
\* touches the list.
C7_MessagesAppendOnly ==
    [][Truthy(dialog) =>
        LET e == dialog'.last
        IN /\ dialog'.renders \in {dialog.renders, dialog.renders + 1}
           /\ dialog'.renders = dialog.renders + 1 =>
                 IF HasText(e.message)
                 THEN dialog'.messages =
                        Append(dialog.messages,
                               toUpperCase(TextOf(e.result)) \o <<":", " ">>
                                 \o escape_html(e.message.v))
                 ELSE dialog'.messages = dialog.messages
           /\ dialog'.renders = dialog.renders => Frozen
           /\ (/\ published' = published + 1
               /\ dialog'.renders = dialog.renders
               /\ dialog'.missed = dialog.missed) => listeners' = listeners
    ]_vars

C7_Witness ==
    /\ Truthy(dialog)
    /\ dialog.renders = 3
    /\ dialog.messages = << <<"O", "K", ":", " ", "m">>,
                            <<"E", "R", "R", ":", " ", "&", "l", "t", ";",
                              "&", "a", "m", "p", ";">> >>

\* C8: a closed dialog's handler is not registered, whether or not a
\* completion payload came before; no step changes a closed dialog's message
\* list or rendered progress; and closing a dialog whose handler was already
\* removed only closes it.
C8_HideDeregisters ==
    /\ [](Truthy(dialog) /\ ~dialog.shown => Handler \notin listeners)
    /\ [][Truthy(dialog) /\ ~dialog.shown => Frozen /\ ~dialog'.shown]_vars
    /\ [][Truthy(dialog) /\ dialog.shown /\ ~dialog'.shown /\ Handler \notin listeners =>
            /\ listeners' = listeners
            /\ dialog' = [dialog EXCEPT !.shown = FALSE]]_vars

C8_Witness ==
    /\ Truthy(dialog)
    /\ ~dialog.shown
    /\ dialog.renders = 1
    /\ ~dialog.gotDone
    /\ ~dialog.gotFull
    /\ dialog.missed = 2

\* C9, as stated: once a Start callback has returned and while the dialog is
\* open, no payload published on the channel goes unrendered.
C9_EveryEventRendered ==
    [][Truthy(dialog) /\ dialog.shown /\ dialog.returned > 0 =>
          dialog'.missed = dialog.missed]_vars

\* C5: a change of shopify_coupon_code to a non-empty value adds exactly one
\* get_shopify_coupon_code_percent_value call carrying that code; a change to
\* an empty value adds no call and sets additional_discount_percentage to 0
\* in the same step; a response that carries a message sets the field to its
\* percent_value, or to 0 when that is missing.
C5_CouponLookup ==
    [][/\ order_log'.changes = order_log.changes + 1 =>
            IF HasText(doc'.shopify_coupon_code)
            THEN lookups' = Append(lookups,
                    [method |-> LookupMethod,
                     args |-> [coupon_code |-> doc'.shopify_coupon_code]])
            ELSE /\ lookups' = lookups
                 /\ doc'.additional_discount_percentage = Num(0)
       /\ order_log'.replies = order_log.replies + 1 =>
            LET r == order_log'.last.r
            IN /\ Len(lookups') = Len(lookups) - 1
               /\ ~NoField(r.message) =>
                     doc'.additional_discount_percentage =
                        Num(CountOf(r.message.percent_value))
    ]_vars

C5_Witness ==
    /\ order_log.changes = 3
    /\ order_log.replies = 2
    /\ doc.shopify_coupon_code = Str(<<"B">>)
    /\ order_log.last.call.args.coupon_code = Str(<<"B">>)
    /\ order_log.last.r = Response(PercentMessage(Num(20)))
    /\ doc.additional_discount_percentage = Num(20)

\* C10, as stated: once no lookup is pending, the discount is 0 if the coupon
\* code is empty, and otherwise it is the percent value of the last response
\* for the current code (when that response carried one).
C10_DiscountMatchesCode ==
    lookups = <<>> =>
        LET code == doc.shopify_coupon_code
        IN IF ~HasText(code)
           THEN doc.additional_discount_percentage = Num(0)
           ELSE (code \in DOMAIN order_log.answers
                   /\ ~NoField(order_log.answers[code].message)) =>
                doc.additional_discount_percentage =
                    Num(CountOf(order_log.answers[code].message.percent_value))

\* C6: every response gets exactly one notice.  It is the plain notice
\* 'Coupon updated.' exactly when the response has a message whose status is
\* 'success'; otherwise it is a red 'Error' dialog, whose text is
\* 'Failed to update coupons.' whenever the response carries no error field.
C6_UpdateNotice ==
    /\ Len(coupon_msgs) = Len(coupon_replies)
    /\ \A k \in DOMAIN coupon_replies :
          LET r == coupon_replies[k]
              notice == coupon_msgs[k]
              success == ~NoField(r.message) /\ r.message.status = Str(S_success)
              noError == NoField(r.message) \/ NoField(r.message.error)
          IN /\ success <=> notice = [message |-> T_updated]
             /\ ~success =>
                  /\ DOMAIN notice = {"title", "message", "indicator"}
                  /\ notice.title = T_error
                  /\ notice.indicator = "red"
                  /\ notice.message # T_updated
                  /\ noError => notice.message = T_failed

C6_Witness ==
    /\ Len(coupon_msgs) = 3
    /\ coupon_replies[1] = Response(UpdateMessage(Str(S_success), Undefined))
    /\ coupon_replies[2] = Response(UpdateMessage(Str(<<"S">> \o Tail(S_success)), Undefined))
    /\ coupon_replies[3] = Response(Undefined)
    /\ coupon_msgs[1] = [message |-> T_updated]
    /\ coupon_msgs[2].message = T_failed
    /\ coupon_msgs[3].indicator = "red"

=============================================================================
